---- MODULE Spec2Model ----
(***************************************************************************)
(* Pico-GB: the cross-core rendering pipeline of src/main.c.               *)
(*                                                                         *)
(* Core 0 (the emulation core) runs main()'s frame loop; the emulator      *)
(* calls lcd_draw_line once per rendered scanline.  Core 1 (the display    *)
(* core) runs main_core1: display initialisation, the full-screen clear    *)
(* and then the command loop.  The cores share pixels_buffer,              *)
(* lcd_line_busy and the inter-core FIFO.                                  *)
(*                                                                         *)
(* Both builds of the source are modelled: use_dma is the value of the     *)
(* USE_DMA macro (0 in the source as written, 1 selects the #if branch).   *)
(***************************************************************************)
EXTENDS Naturals, Sequences, FiniteSets

(***************************************************************************)
(* Bounds of the model.  LineWords (the 32-bit words of a scanline) and    *)
(* LCD_HEIGHT are the emulator's 40 and 144 scaled down; FifoDepth is the  *)
(* capacity of the inter-core FIFO scaled down so that a push does block;  *)
(* MaxFrames caps the number of emulated frames.                           *)
(***************************************************************************)
LineWords == 3
LCD_HEIGHT == 2
FifoDepth == 2
MaxFrames == 2

(* union core_cmd: the command kinds. *)
CORE_CMD_NOP == 0
CORE_CMD_LCD_LINE == 1
CORE_CMD_IDLE_SET == 2
CORE_CMD_SET_PIXEL == 3

LCD_WIDTH == 4 * LineWords

Rows == 0 .. (LCD_HEIGHT - 1)
Cols == 1 .. LCD_WIDTH

(***************************************************************************)
(* A 32-bit word is the set of the positions (0 .. 31) of its 1 bits.      *)
(***************************************************************************)
Zero32 == {}

(* Bit k (0 = least significant) of byte b. *)
BitOf(b, k) == (b \div (2 ^ k)) % 2

(***************************************************************************)
(* The DMA sniffer in mode 0x0: CRC-32 with the IEEE 802.3 polynomial      *)
(* 0x04C11DB7, no input or output reflection or inversion, accumulated     *)
(* in sniff_data over every 32-bit word the channel transfers, most        *)
(* significant bit first.  It is computed a byte at a time, as             *)
(*   crc = (crc << 8) ^ CrcTable[(crc >> 24) ^ byte].                      *)
(***************************************************************************)
Poly == {26, 23, 22, 16, 12, 11, 10, 8, 7, 5, 4, 2, 1, 0}

(* One shift of the register: the polynomial is XORed in when a 1 leaves. *)
CrcShift(r) ==
    {i \in 0 .. 31 : (i > 0 /\ (i - 1) \in r) # (31 \in r /\ i \in Poly)}

(* CrcTable[v]: eight shifts of the register that holds byte v on top. *)
CrcTable ==
    [v \in SUBSET (0 .. 7) |->
        CrcShift(CrcShift(CrcShift(CrcShift(
        CrcShift(CrcShift(CrcShift(CrcShift({24 + k : k \in v}))))))))]

SniffByte(crc, b) ==
    LET v == {k \in 0 .. 7 : ((24 + k) \in crc) # (BitOf(b, k) = 1)}
    IN  {i \in 0 .. 31 : (i >= 8 /\ (i - 8) \in crc) # (i \in CrcTable[v])}

(* The channel's transfer count: LCD_WIDTH / sizeof(uint32_t) words. *)
TransferWords == LCD_WIDTH \div 4

(* The index (1-based) of the n-th byte the sniffer takes: the words in    *)
(* order, the four bytes of each little-endian word from the top down.     *)
SniffOrder(n) == 4 * ((n - 1) \div 4) + 4 - ((n - 1) % 4)

(* sniff_data after the copy of one line, seeded with 0. *)
dma_sniff(bytes) ==
    LET acc[n \in 0 .. 4 * TransferWords] ==
            IF n = 0 THEN Zero32
            ELSE SniffByte(acc[n - 1], bytes[SniffOrder(n)])
    IN  acc[4 * TransferWords]

(* The destination after the copy: the transferred words replace the old. *)
dma_copy(old, new) ==
    [x \in Cols |-> IF x <= 4 * TransferWords THEN new[x] ELSE old[x]]

(***************************************************************************)
(* The scanlines the emulator renders in this model.  LineZero is a line   *)
(* of colour 0 of object palette 0; LineA and LineB are two distinct       *)
(* lines with the same CRC-32 (they differ by a multiple of the            *)
(* polynomial).                                                            *)
(***************************************************************************)
LineZero == [x \in Cols |-> 0]
LineA == [x \in Cols |-> 1]
LineB ==
    [x \in Cols |->
        CASE x = 4 -> 2
          [] x = 5 -> 17
          [] x = 6 -> 3
          [] x = 9 -> 32
          [] x = 10 -> 33
          [] x = 11 -> 0
          [] OTHER -> 1]
Lines == {LineZero, LineA, LineB}

(* The games of the model: the scanlines the emulator renders are those    *)
(* of the ROM it runs.  One game alternates a blank line with LineA, the   *)
(* other renders the colliding pair.                                       *)
Games == {{LineZero, LineA}, {LineA, LineB}}
NoLine == <<>>

(* No scanline has been written to the display yet. *)
NoTx == [row |-> LCD_HEIGHT, bytes |-> NoLine]

(* The record of an lcd_draw_line call, outside any call. *)
NoCall == [hashes |-> <<>>, pushed |-> <<>>, repeat |-> FALSE]

(* The sniffer's result for each line of the model, computed once. *)
SniffTable == {<<c, dma_sniff(c)>> : c \in Lines}

SniffOf(c) == (CHOOSE p \in SniffTable : p[1] = c)[2]

(***************************************************************************)
(* palette[p][c]: the colour table loaded at boot.  The entries stand for  *)
(* the twelve 16-bit colours.                                              *)
(***************************************************************************)
palette == [p \in 0 .. 2 |-> [c \in 0 .. 3 |-> 4 * p + c]]

(* fb[x] = palette[(pixels_buffer[x] & LCD_PALETTE_ALL) >> 4]              *)
(*                [pixels_buffer[x] & 3]:                                  *)
(* the palette number is bits 4-5 of the byte, the colour bits 0-1.        *)
Translate(bytes) ==
    [x \in Cols |-> palette[(bytes[x] % 64) \div 16][bytes[x] % 4]]

Cmd(k, d) == [cmd |-> k, data |-> d]

VARIABLES
    use_dma,           \* the USE_DMA macro of the build
    rom,               \* the game: the scanlines it makes the emulator render
    lcd_line_busy,     \* 0 or 1
    lcd_line_hashes,   \* gb_priv.lcd_line_hashes
    pixels_buffer,
    sniff_data,        \* dma_hw->sniff_data
    fifo,              \* the inter-core FIFO, core 0 to core 1
    pc0,               \* core 0's position
    ly,                \* the scanline the emulator renders next
    pixels,            \* lcd_draw_line's argument pixels
    line,              \* lcd_draw_line's argument line
    mode,              \* the static mode of main's case 'c'
    pc1,               \* core 1's position
    cmd,               \* main_core1's cmd
    fb,                \* core1_lcd_draw_line's static fb
    lcd_x,             \* the display controller's target row
    colour_mode,       \* the display controller's colour mode
    dma_lcd_busy,      \* dma_channel_is_busy(dma_lcd)
    \* history, not program state
    observe,           \* whether this run's history (but for frame) is
                       \* recorded
    frame,             \* the number of the frame being emulated
    frame_cmds,        \* the rows of the DRAW_LINEs pushed in this frame
    diff,              \* rows rendered in this frame with bytes other than
                       \* in the previous frame
    hdiff,             \* the same, for the rows whose hash is another
    last,              \* per row, the line it was last rendered with
    call,              \* the current lcd_draw_line call: the hash table at
                       \* its entry, the commands it has pushed, and whether
                       \* its line is the one the row was last rendered with
    fwd,               \* per row, the last line a DRAW_LINE was enqueued for
    pending,           \* the commands pushed and not yet executed, in order
    in_order,          \* every command executed was the oldest one pending
    fifo_px,           \* beside fifo: the line each DRAW_LINE was enqueued for
    cmd_px,            \* beside cmd
    sound,             \* the calls main has made to the audio functions
    raw,               \* the bytes core 1 read from pixels_buffer for cmd
    tx                 \* the last scanline written to the display: its row
                       \* and the bytes it was translated from

build == <<use_dma, rom>>
prog == <<build, lcd_line_busy, lcd_line_hashes, pixels_buffer, sniff_data,
          fifo, pc0, ly, pixels, line, mode, pc1, cmd, fb, lcd_x,
          colour_mode, dma_lcd_busy>>
hist == <<observe, frame, frame_cmds, diff, hdiff, last, call, fwd, pending,
          in_order,
          fifo_px, cmd_px, sound, raw, tx>>
vars == <<prog, hist>>

core0 == <<pc0, ly, pixels, line, mode>>
core1 == <<pc1, cmd, fb, lcd_x, colour_mode, dma_lcd_busy>>
frames == <<observe, frame, frame_cmds, diff, hdiff, last>>
queue == <<pending, in_order, fifo_px, cmd_px>>

(* A history variable takes its new value in the runs that record it. *)
Record(new, old) == IF observe THEN new ELSE old

(***************************************************************************)
(* The state when main has launched core 1 and set up the pixel-copy DMA   *)
(* channel: statics are zero, the FIFO is empty.                           *)
(***************************************************************************)
Boot ==
    /\ use_dma \in {0, 1}
    /\ rom \in Games
    /\ lcd_line_busy = 0
    /\ lcd_line_hashes = [r \in Rows |-> Zero32]
    /\ pixels_buffer = [x \in Cols |-> 0]
    /\ sniff_data = Zero32
    /\ fifo = <<>>
    /\ pc0 = "step"
    /\ ly = 0
    /\ pixels = NoLine
    /\ line = 0
    /\ mode = 0
    /\ pc1 = "init"
    /\ cmd = Cmd(CORE_CMD_NOP, 0)
    /\ fb = [x \in Cols |-> 0]
    /\ lcd_x = 0
    /\ colour_mode = 0
    /\ dma_lcd_busy = FALSE
    /\ frame = 1
    /\ frame_cmds = <<>>
    /\ diff = {}
    /\ hdiff = {}
    /\ last = [r \in Rows |-> NoLine]
    /\ call = NoCall
    /\ fwd = [r \in Rows |-> NoLine]
    /\ pending = <<>>
    /\ in_order = TRUE
    /\ fifo_px = <<>>
    /\ cmd_px = NoLine
    /\ sound = <<>>
    /\ raw = NoLine
    /\ tx = NoTx

Init == observe = TRUE /\ Boot

(* The same state, for the runs that follow the program alone. *)
InitProgram == observe = FALSE /\ Boot

(***************************************************************************)
(* Core 0.                                                                 *)
(***************************************************************************)

(* The emulator (__gb_step_cpu) has rendered scanline ly and calls         *)
(* lcd_draw_line(gb, pixels, ly).                                          *)
gb_step_cpu ==
    /\ pc0 = "step"
    /\ \E c \in rom :
          /\ pixels' = c
          /\ call' = Record([hashes |-> lcd_line_hashes, pushed |-> <<>>,
                              repeat |-> (last[ly] = c)], call)
    /\ line' = ly
    /\ pc0' = "wait"
    /\ UNCHANGED <<build, lcd_line_busy, lcd_line_hashes, pixels_buffer,
                   sniff_data, fifo, ly, mode, core1>>
    /\ UNCHANGED <<frames, fwd, queue, sound, raw, tx>>

(* lcd_draw_line with a store of 0 to lcd_line_busy in place of the        *)
(* busy-wait.                                                              *)
lcd_draw_line_wait_clears ==
    /\ pc0 = "wait"
    /\ lcd_line_busy' = 0
    /\ sniff_data' = Zero32
    /\ pc0' = "copy"
    /\ UNCHANGED <<build, lcd_line_hashes, pixels_buffer,
                   fifo, ly, pixels, line, mode, core1>>
    /\ UNCHANGED hist

(* lcd_draw_line: the busy-wait on lcd_line_busy, then sniff_data = 0 and  *)
(* the start of the copy of pixels into pixels_buffer.                     *)
lcd_draw_line_wait ==
    /\ pc0 = "wait"
    /\ lcd_line_busy = 0
    /\ sniff_data' = Zero32
    /\ pc0' = "copy"
    /\ UNCHANGED <<build, lcd_line_busy, lcd_line_hashes, pixels_buffer,
                   fifo, ly, pixels, line, mode, core1>>
    /\ UNCHANGED hist

(* The comparison dropped: every line is forwarded. *)
AlwaysForward(stored, h) == TRUE

(* The comparison inverted: a line is forwarded when its hash is the       *)
(* stored one.                                                             *)
InvertedForward(stored, h) == stored = h

(* if(gb_priv.lcd_line_hashes[line] == dma_hw->sniff_data) return; *)
ShouldForward(stored, h) == stored # h

(* The store dropped: the table keeps its entries. *)
KeepHash(hashes, l, h) == hashes

(* One hash for the whole screen: the store reaches every row's entry. *)
StoreHashAll(hashes, l, h) == [r \in DOMAIN hashes |-> h]

(* A store to the entry of the row above. *)
StoreHashAbove(hashes, l, h) ==
    [hashes EXCEPT ![IF l = 0 THEN LCD_HEIGHT - 1 ELSE l - 1] = h]

(* gb_priv.lcd_line_hashes[line] = dma_hw->sniff_data; *)
StoreHash(hashes, l, h) == [hashes EXCEPT ![l] = h]

(* lcd_draw_line: the copy has finished (dma_channel_wait_for_finish_      *)
(* blocking returns); the comparison with the stored hash and, for a       *)
(* changed line, the store of the new hash.                                *)
lcd_draw_line_copy ==
    /\ pc0 = "copy"
    /\ pixels_buffer' = dma_copy(pixels_buffer, pixels)
    /\ sniff_data' = SniffOf(pixels)
    /\ IF ShouldForward(lcd_line_hashes[line], sniff_data')
       THEN /\ lcd_line_hashes' = StoreHash(lcd_line_hashes, line, sniff_data')
            /\ fwd' = Record([fwd EXCEPT ![line] = pixels], fwd)
            /\ pc0' = "busy"
       ELSE /\ UNCHANGED <<lcd_line_hashes, fwd>>
            /\ pc0' = "ret"
    /\ UNCHANGED <<build, lcd_line_busy, fifo, ly, pixels, line, mode, core1>>
    /\ UNCHANGED <<frames, call, queue, sound, raw, tx>>

(* __atomic_store_n(&lcd_line_busy, 1, __ATOMIC_SEQ_CST); *)
SetBusy == 1

lcd_draw_line_busy ==
    /\ pc0 = "busy"
    /\ lcd_line_busy' = SetBusy
    /\ pc0' = "push"
    /\ UNCHANGED <<build, lcd_line_hashes, pixels_buffer, sniff_data, fifo,
                   ly, pixels, line, mode, core1>>
    /\ UNCHANGED hist

(* multicore_fifo_push_blocking: waits for room, then appends. *)
fifo_has_room == Len(fifo) < FifoDepth

fifo_push(q, c) == Append(q, c)

lcd_draw_line_push ==
    /\ pc0 = "push"
    /\ fifo_has_room
    /\ fifo' = fifo_push(fifo, Cmd(CORE_CMD_LCD_LINE, line))
    /\ fifo_px' = Record(Append(fifo_px, pixels), fifo_px)
    /\ pending' = Record(Append(pending, Cmd(CORE_CMD_LCD_LINE, line)),
                         pending)
    /\ call' = Record([call EXCEPT !.pushed =
                            Append(@, Cmd(CORE_CMD_LCD_LINE, line))], call)
    /\ frame_cmds' = Record(Append(frame_cmds, line), frame_cmds)
    /\ pc0' = "ret"
    /\ UNCHANGED <<build, lcd_line_busy, lcd_line_hashes, pixels_buffer,
                   sniff_data, ly, pixels, line, mode, core1>>
    /\ UNCHANGED <<observe, frame, diff, hdiff, last, fwd, in_order, cmd_px,
                   sound, raw, tx>>

(* lcd_draw_line returns to the emulator; after the last scanline the      *)
(* emulator sets gb_frame and main leaves its do-while loop for the audio  *)
(* calls.                                                                  *)
lcd_draw_line_return ==
    /\ pc0 = "ret"
    /\ last' = Record([last EXCEPT ![line] = pixels], last)
    /\ diff' = IF observe /\ frame > 1 /\ last[line] # pixels
               THEN diff \cup {line} ELSE diff
    /\ hdiff' = IF observe /\ frame > 1
                    /\ SniffOf(last[line]) # SniffOf(pixels)
                THEN hdiff \cup {line} ELSE hdiff
    /\ IF ly = LCD_HEIGHT - 1
       THEN pc0' = "audio" /\ UNCHANGED ly
       ELSE pc0' = "step" /\ ly' = ly + 1
    /\ UNCHANGED <<build, lcd_line_busy, lcd_line_hashes, pixels_buffer,
                   sniff_data, fifo, pixels, line, mode, core1>>
    /\ call' = NoCall
    /\ UNCHANGED <<observe, frame, frame_cmds, fwd, queue, sound, raw, tx>>

(* main, ENABLE_SOUND 1, after the do-while loop: audio_callback is not    *)
(* called and main goes on to the serial input.                            *)
main_audio_skipped ==
    /\ pc0 = "audio"
    /\ pc0' = "frame"
    /\ UNCHANGED <<build, lcd_line_busy, lcd_line_hashes, pixels_buffer,
                   sniff_data, fifo, ly, pixels, line, mode, core1>>
    /\ UNCHANGED hist

(* main: audio_callback(NULL, stream, AUDIO_BUFFER_SIZE_BYTES) fills       *)
(* stream with the samples of the frame just emulated.                     *)
main_audio_callback ==
    /\ pc0 = "audio"
    /\ sound' = Append(sound, "audio_callback")
    /\ pc0' = "i2s"
    /\ UNCHANGED <<build, lcd_line_busy, lcd_line_hashes, pixels_buffer,
                   sniff_data, fifo, ly, pixels, line, mode, core1>>
    /\ UNCHANGED <<frames, call, fwd, queue, raw, tx>>

(* main: i2s_dma_write(&i2s_config, stream) submits the buffer and         *)
(* returns; main goes on to the buttons and the serial input.              *)
main_i2s_dma_write ==
    /\ pc0 = "i2s"
    /\ sound' = Append(sound, "i2s_dma_write")
    /\ pc0' = "frame"
    /\ UNCHANGED <<build, lcd_line_busy, lcd_line_hashes, pixels_buffer,
                   sniff_data, fifo, ly, pixels, line, mode, core1>>
    /\ UNCHANGED <<frames, call, fwd, queue, raw, tx>>

(* The next frame begins: gb.gb_frame = 0 and the emulator starts at       *)
(* scanline 0.                                                             *)
NextFrame ==
    /\ pc0' = "step"
    /\ ly' = 0
    /\ frame' = frame + 1
    /\ frame_cmds' = <<>>
    /\ diff' = {}
    /\ hdiff' = {}

(* main: the frame has ended and getchar_timeout_us returns no 'c'. *)
main_frame_end ==
    /\ pc0 = "frame"
    /\ frame < MaxFrames
    /\ NextFrame
    /\ UNCHANGED <<build, lcd_line_busy, lcd_line_hashes, pixels_buffer,
                   sniff_data, fifo, pixels, line, mode, core1>>
    /\ UNCHANGED <<observe, last, call, fwd, queue, sound, raw, tx>>

(* main: case 'c': mode = !mode and the command is populated. *)
main_input_c ==
    /\ pc0 = "frame"
    /\ frame < MaxFrames
    /\ mode' = 1 - mode
    /\ pc0' = "idle"
    /\ UNCHANGED <<build, lcd_line_busy, lcd_line_hashes, pixels_buffer,
                   sniff_data, fifo, ly, pixels, line, core1>>
    /\ UNCHANGED hist

(* main: case 'c': multicore_fifo_push_blocking(cmd.full). *)
main_idle_push ==
    /\ pc0 = "idle"
    /\ fifo_has_room
    /\ fifo' = fifo_push(fifo, Cmd(CORE_CMD_IDLE_SET, mode))
    /\ fifo_px' = Record(Append(fifo_px, NoLine), fifo_px)
    /\ pending' = Record(Append(pending, Cmd(CORE_CMD_IDLE_SET, mode)),
                         pending)
    /\ NextFrame
    /\ UNCHANGED <<build, lcd_line_busy, lcd_line_hashes, pixels_buffer,
                   sniff_data, pixels, line, mode, core1>>
    /\ UNCHANGED <<observe, last, call, fwd, in_order, cmd_px, sound, raw,
                   tx>>

Core0 ==
    \/ gb_step_cpu
    \/ lcd_draw_line_wait
    \/ lcd_draw_line_copy
    \/ lcd_draw_line_busy
    \/ lcd_draw_line_push
    \/ lcd_draw_line_return
    \/ main_audio_callback
    \/ main_i2s_dma_write
    \/ main_frame_end
    \/ main_input_c
    \/ main_idle_push

(***************************************************************************)
(* Core 1.                                                                 *)
(*                                                                         *)
(* The two wait loops, do { __wfi(); } while (dma_channel_is_busy(dma_lcd)) *)
(* are left when the channel is no longer busy.  The completion interrupt  *)
(* of dma_lcd is the only interrupt enabled on core 1, and a transfer      *)
(* paced by the SPI takes far longer than the instructions between its     *)
(* start and the __wfi, so the interrupt always finds core 1 in the loop.  *)
(***************************************************************************)

(* main_core1 up to the first __wfi: mk_ili9225_init, the DMA channel and  *)
(* its IRQ handler, and the start of the full-screen clear.                *)
main_core1_init ==
    /\ pc1 = "init"
    /\ dma_lcd_busy' = TRUE
    /\ pc1' = "clear_wfi"
    /\ UNCHANGED <<build, lcd_line_busy, lcd_line_hashes, pixels_buffer,
                   sniff_data, fifo, core0, cmd, fb, lcd_x, colour_mode>>
    /\ UNCHANGED hist

(* The completion paths store 1, not 0: the flag is never cleared. *)
ClearBusyStuck == SetBusy

(* __atomic_store_n(&lcd_line_busy, 0, __ATOMIC_SEQ_CST); *)
ClearBusy == 0

(* The transfer of dma_lcd completes and DMA_IRQ_0 runs                    *)
(* core1_irq_dma_lcd_end_transfer on core 1.  For a scanline transfer the  *)
(* display has by now received fb.                                         *)
core1_irq_dma_lcd_end_transfer ==
    /\ dma_lcd_busy
    /\ dma_lcd_busy' = FALSE
    /\ lcd_line_busy' = ClearBusy
    /\ tx' = IF pc1 = "draw_wfi"
             THEN Record([row |-> lcd_x - 16, bytes |-> raw], tx) ELSE tx
    /\ UNCHANGED <<build, lcd_line_hashes, pixels_buffer, sniff_data, fifo,
                   core0, pc1, cmd, fb, lcd_x, colour_mode>>
    /\ UNCHANGED <<frames, call, fwd, queue, sound, raw>>

(* main_core1 without the wait loop after the clear is started. *)
main_core1_window_early ==
    /\ pc1 = "clear_wfi"
    /\ pc1' = "pop"
    /\ UNCHANGED <<build, lcd_line_busy, lcd_line_hashes, pixels_buffer,
                   sniff_data, fifo, core0, cmd, fb, lcd_x, colour_mode,
                   dma_lcd_busy>>
    /\ UNCHANGED hist

(* main_core1 after the clear: the transfer count of a scanline and the    *)
(* display window; then the command loop.                                  *)
main_core1_window ==
    /\ pc1 = "clear_wfi"
    /\ ~dma_lcd_busy
    /\ pc1' = "pop"
    /\ UNCHANGED <<build, lcd_line_busy, lcd_line_hashes, pixels_buffer,
                   sniff_data, fifo, core0, cmd, fb, lcd_x, colour_mode,
                   dma_lcd_busy>>
    /\ UNCHANGED hist

(* multicore_fifo_pop_blocking: waits for an entry, then removes the       *)
(* oldest.                                                                 *)
(* A stack, not a queue: the pop returns the newest entry. *)
fifo_newest(q) == q[Len(q)]

fifo_front(q) == Head(q)

fifo_rest(q) == Tail(q)

main_core1_pop ==
    /\ pc1 = "pop"
    /\ fifo # <<>>
    /\ cmd' = fifo_front(fifo)
    /\ fifo' = fifo_rest(fifo)
    /\ cmd_px' = Record(Head(fifo_px), cmd_px)
    /\ fifo_px' = Record(Tail(fifo_px), fifo_px)
    /\ pc1' = "switch"
    /\ UNCHANGED <<build, lcd_line_busy, lcd_line_hashes, pixels_buffer,
                   sniff_data, core0, fb, lcd_x, colour_mode, dma_lcd_busy>>
    /\ UNCHANGED <<frames, call, fwd, pending, in_order, sound, raw, tx>>

(* A command has been executed: it leaves the pending ones. *)
Executed ==
    /\ in_order' = Record(in_order /\ pending # <<>> /\ Head(pending) = cmd,
                          in_order)
    /\ pending' = IF pending = <<>> THEN pending ELSE Tail(pending)
    /\ cmd_px' = NoLine
    /\ raw' = NoLine

(* The switch with a CORE_CMD_IDLE_SET arm that also stores 0 to            *)
(* lcd_line_busy.                                                          *)
main_core1_switch_idle_clears ==
    /\ pc1 = "switch"
    /\ CASE cmd.cmd = CORE_CMD_LCD_LINE ->
                /\ pc1' = "draw"
                /\ UNCHANGED <<lcd_line_busy, colour_mode, pending, in_order,
                               cmd_px, raw>>
         [] cmd.cmd = CORE_CMD_IDLE_SET ->
                /\ colour_mode' = cmd.data
                /\ lcd_line_busy' = 0
                /\ Executed
                /\ pc1' = "pop"
         [] OTHER ->
                /\ Executed
                /\ pc1' = "pop"
                /\ UNCHANGED <<lcd_line_busy, colour_mode>>
    /\ UNCHANGED <<build, lcd_line_hashes, pixels_buffer, sniff_data, fifo,
                   core0, cmd, fb, lcd_x, dma_lcd_busy>>
    /\ UNCHANGED <<frames, call, fwd, fifo_px, sound, tx>>

(* The switch with CORE_CMD_NOP and default falling through into the       *)
(* CORE_CMD_IDLE_SET arm.                                                  *)
main_core1_switch_fallthrough ==
    /\ pc1 = "switch"
    /\ CASE cmd.cmd = CORE_CMD_LCD_LINE ->
                /\ pc1' = "draw"
                /\ UNCHANGED <<colour_mode, pending, in_order, cmd_px, raw>>
         [] OTHER ->
                /\ colour_mode' = cmd.data
                /\ Executed
                /\ pc1' = "pop"
    /\ UNCHANGED <<build, lcd_line_busy, lcd_line_hashes, pixels_buffer,
                   sniff_data, fifo, core0, cmd, fb, lcd_x, dma_lcd_busy>>
    /\ UNCHANGED <<frames, call, fwd, fifo_px, sound, tx>>

(* switch(cmd.cmd): CORE_CMD_LCD_LINE calls core1_lcd_draw_line(cmd.data), *)
(* CORE_CMD_IDLE_SET calls mk_ili9225_display_control(true, cmd.data),     *)
(* CORE_CMD_NOP and every other kind break.                                *)
main_core1_switch ==
    /\ pc1 = "switch"
    /\ CASE cmd.cmd = CORE_CMD_LCD_LINE ->
                /\ pc1' = "draw"
                /\ UNCHANGED <<colour_mode, pending, in_order, cmd_px, raw>>
         [] cmd.cmd = CORE_CMD_IDLE_SET ->
                /\ colour_mode' = cmd.data
                /\ Executed
                /\ pc1' = "pop"
         [] OTHER ->
                /\ Executed
                /\ pc1' = "pop"
                /\ UNCHANGED colour_mode
    /\ UNCHANGED <<build, lcd_line_busy, lcd_line_hashes, pixels_buffer,
                   sniff_data, fifo, core0, cmd, fb, lcd_x, dma_lcd_busy>>
    /\ UNCHANGED <<frames, call, fwd, fifo_px, sound, tx>>

(***************************************************************************)
(* What the translation loop reads from pixels_buffer.  Core 1 reads it    *)
(* byte by byte with no synchronisation of its own.  While core 0's copy   *)
(* channel is writing it, the loop may read the old line, the new line, or *)
(* old bytes at some indices and new bytes at the others: Torn stands for  *)
(* every such mix, and for its translation.                                *)
(***************************************************************************)
Torn == <<"torn">>

ReadPixelsBuffer ==
    IF pc0 = "copy"
    THEN {pixels_buffer, dma_copy(pixels_buffer, pixels)}
            \cup (IF dma_copy(pixels_buffer, pixels) = pixels_buffer
                  THEN {} ELSE {Torn})
    ELSE {pixels_buffer}

(* core1_lcd_draw_line: the translation loop and mk_ili9225_set_x. *)
core1_lcd_draw_line_fb ==
    /\ pc1 = "draw"
    /\ \E bytes \in ReadPixelsBuffer :
          /\ raw' = Record(bytes, raw)
          /\ fb' = IF bytes = Torn THEN Torn ELSE Translate(bytes)
    /\ lcd_x' = cmd.data + 16
    /\ pc1' = "write"
    /\ UNCHANGED <<build, lcd_line_busy, lcd_line_hashes, pixels_buffer,
                   sniff_data, fifo, core0, cmd, colour_mode, dma_lcd_busy>>
    /\ UNCHANGED <<frames, call, fwd, queue, sound, tx>>

(* USE_DMA 0 without the store of 0 to lcd_line_busy after the transfer. *)
core1_lcd_draw_line_sync_keeps_busy ==
    /\ pc1 = "write"
    /\ use_dma = 0
    /\ tx' = Record([row |-> lcd_x - 16, bytes |-> raw], tx)
    /\ Executed
    /\ pc1' = "pop"
    /\ UNCHANGED <<build, lcd_line_busy, lcd_line_hashes, pixels_buffer,
                   sniff_data, fifo, core0, cmd, fb, lcd_x, colour_mode,
                   dma_lcd_busy>>
    /\ UNCHANGED <<frames, call, fwd, fifo_px, sound>>

(* core1_lcd_draw_line, USE_DMA 0: mk_ili9225_write_pixels(fb, LCD_WIDTH)  *)
(* and the store of 0 to lcd_line_busy; the function returns.              *)
core1_lcd_draw_line_sync ==
    /\ pc1 = "write"
    /\ use_dma = 0
    /\ tx' = Record([row |-> lcd_x - 16, bytes |-> raw], tx)
    /\ lcd_line_busy' = ClearBusy
    /\ Executed
    /\ pc1' = "pop"
    /\ UNCHANGED <<build, lcd_line_hashes, pixels_buffer, sniff_data, fifo,
                   core0, cmd, fb, lcd_x, colour_mode, dma_lcd_busy>>
    /\ UNCHANGED <<frames, call, fwd, fifo_px, sound>>

(* USE_DMA 1 without the wait loop: the function returns to the command    *)
(* loop as soon as the transfer is started.                                *)
core1_lcd_draw_line_dma_async ==
    /\ pc1 = "write"
    /\ use_dma = 1
    /\ dma_lcd_busy' = TRUE
    /\ Executed
    /\ pc1' = "pop"
    /\ UNCHANGED <<build, lcd_line_busy, lcd_line_hashes, pixels_buffer,
                   sniff_data, fifo, core0, cmd, fb, lcd_x, colour_mode>>
    /\ UNCHANGED <<frames, call, fwd, fifo_px, sound, tx>>

(* core1_lcd_draw_line, USE_DMA 1: mk_ili9225_write_pixels_start and       *)
(* dma_channel_transfer_from_buffer_now; core 1 enters the wait loop.      *)
core1_lcd_draw_line_dma ==
    /\ pc1 = "write"
    /\ use_dma = 1
    /\ dma_lcd_busy' = TRUE
    /\ pc1' = "draw_wfi"
    /\ UNCHANGED <<build, lcd_line_busy, lcd_line_hashes, pixels_buffer,
                   sniff_data, fifo, core0, cmd, fb, lcd_x, colour_mode>>
    /\ UNCHANGED hist

(* core1_lcd_draw_line, USE_DMA 1: the wait loop ends and the function     *)
(* returns.                                                                *)
core1_lcd_draw_line_wake ==
    /\ pc1 = "draw_wfi"
    /\ ~dma_lcd_busy
    /\ Executed
    /\ pc1' = "pop"
    /\ UNCHANGED <<build, lcd_line_busy, lcd_line_hashes, pixels_buffer,
                   sniff_data, fifo, core0, cmd, fb, lcd_x, colour_mode,
                   dma_lcd_busy>>
    /\ UNCHANGED <<frames, call, fwd, fifo_px, sound, tx>>

Core1 ==
    \/ main_core1_init
    \/ core1_irq_dma_lcd_end_transfer
    \/ main_core1_window
    \/ main_core1_pop
    \/ main_core1_switch
    \/ core1_lcd_draw_line_fb
    \/ core1_lcd_draw_line_sync
    \/ core1_lcd_draw_line_dma
    \/ core1_lcd_draw_line_wake

Next == Core0 \/ Core1

Spec == Init /\ [][Next]_vars

(***************************************************************************)
(* The command loop of core 1 takes whatever word the FIFO delivers.  The  *)
(* two pushes of main.c are of CORE_CMD_LCD_LINE and CORE_CMD_IDLE_SET; to  *)
(* follow the loop over the other kinds of union core_cmd, a word of such  *)
(* a kind is put into the FIFO beside core 0's.                            *)
(***************************************************************************)
OtherCommands ==
    {Cmd(CORE_CMD_NOP, 0), Cmd(CORE_CMD_SET_PIXEL, 1), Cmd(255, 1)}

fifo_push_other ==
    /\ fifo_has_room
    /\ \E c \in OtherCommands :
          /\ fifo' = fifo_push(fifo, c)
          /\ pending' = Record(Append(pending, c), pending)
    /\ fifo_px' = Record(Append(fifo_px, NoLine), fifo_px)
    /\ UNCHANGED <<build, lcd_line_busy, lcd_line_hashes, pixels_buffer,
                   sniff_data, core0, core1>>
    /\ UNCHANGED <<frames, call, fwd, in_order, cmd_px, sound, raw, tx>>

NextAnyCommand == Next \/ fifo_push_other

AnyCommandSpec == Init /\ [][NextAnyCommand]_vars

(* Both cores run: neither is held back for ever while it can step.  The   *)
(* program alone is followed, without its history; the frames are still   *)
(* counted.                                                                *)
FairSpec == InitProgram /\ [][Next]_vars /\ WF_vars(Core0) /\ WF_vars(Core1)

(***************************************************************************)
(* The commands core 0 has pushed and core 1 has not finished executing:   *)
(* the one core 1 holds between its pop and the end of the switch          *)
(* statement, then the FIFO's.                                             *)
(***************************************************************************)
InFlight ==
    IF pc1 \in {"switch", "draw", "write", "draw_wfi"} THEN <<cmd>> ELSE <<>>

Outstanding == InFlight \o fifo

(* The number of CORE_CMD_LCD_LINE commands in q. *)
DrawLines(q) == Cardinality({i \in DOMAIN q : q[i].cmd = CORE_CMD_LCD_LINE})

(* The CORE_CMD_LCD_LINE commands whose translation loop has not yet read  *)
(* pixels_buffer.                                                          *)
UnreadDrawLines ==
    DrawLines(fifo)
        + (IF pc1 \in {"switch", "draw"} THEN DrawLines(<<cmd>>) ELSE 0)

(* The rows of the screen in rendering order. *)
AllRows == [i \in 1 .. LCD_HEIGHT |-> i - 1]

(* The frame just rendered has the same bytes in every row. *)
Uniform == \A r \in Rows : last[r] = last[0]

(***************************************************************************)
(* C1.  Mutual exclusion: in every state at most one CORE_CMD_LCD_LINE     *)
(* command is outstanding (in the FIFO or being executed by core 1), and   *)
(* core 0 is never about to push one while another is outstanding.         *)
(* Violated: the completion interrupt of the start-up screen clear stores  *)
(* 0 to lcd_line_busy while the first scanline's command is still in the   *)
(* FIFO.                                                                   *)
(***************************************************************************)
MutualExclusion ==
    /\ DrawLines(Outstanding) <= 1
    /\ pc0 = "push" => DrawLines(Outstanding) = 0

(***************************************************************************)
(* C2.  Pixel-buffer ownership: core 0 does not copy into pixels_buffer    *)
(* while a CORE_CMD_LCD_LINE command it has pushed has not been read by    *)
(* core 1's translation loop, and the bytes the loop reads for a command   *)
(* are the line the command was pushed for.  Violated, as C1 is.           *)
(***************************************************************************)
PixelBufferOwnership ==
    /\ pc0 = "copy" => UnreadDrawLines = 0
    /\ pc1 = "write" => raw = cmd_px

(***************************************************************************)
(* C3.  FIFO delivery: every command core 1 executes is the oldest one     *)
(* pushed and not yet executed, and the commands pushed and not yet        *)
(* executed are exactly the one core 1 holds followed by the FIFO's, in    *)
(* order: none is dropped, duplicated or reordered.                        *)
(***************************************************************************)
FifoDelivery ==
    /\ in_order
    /\ pending = Outstanding

(* Core 0 blocked on a full FIFO that holds both kinds of command, after   *)
(* core 1 has executed commands.                                           *)
FifoDeliveryWitness ==
    /\ pc0 = "push"
    /\ ~fifo_has_room
    /\ \E i \in DOMAIN fifo : fifo[i].cmd = CORE_CMD_IDLE_SET
    /\ \E i \in DOMAIN fifo : fifo[i].cmd = CORE_CMD_LCD_LINE
    /\ tx # NoTx

(***************************************************************************)
(* C4.  Progress: with both cores scheduled fairly and every started       *)
(* transfer completing, lcd_line_busy = 1 leads to lcd_line_busy = 0, the  *)
(* busy-wait at the top of lcd_draw_line terminates, a command in the FIFO  *)
(* is eventually popped and a popped command is eventually executed to     *)
(* its end; in the USE_DMA 0 build and in the USE_DMA 1 build.             *)
(***************************************************************************)
Progress ==
    /\ (lcd_line_busy = 1) ~> (lcd_line_busy = 0)
    /\ (pc0 = "wait") ~> (pc0 = "copy")
    /\ (fifo # <<>>) ~> (pc1 = "switch")
    /\ (InFlight # <<>>) ~> (pc1 = "pop")

(* USE_DMA 1: core 1 has transferred the last row and is back at its pop,  *)
(* the interrupt has cleared the flag, and a call in the next frame has    *)
(* left its busy-wait.                                                     *)
ProgressWitness ==
    /\ use_dma = 1
    /\ lcd_x = 16 + LCD_HEIGHT - 1
    /\ pc1 = "pop"
    /\ Outstanding = <<>>
    /\ lcd_line_busy = 0
    /\ pc0 = "copy"
    /\ ly = 0

(***************************************************************************)
(* C5.  Dirty-line filter: when lcd_draw_line is about to return, either   *)
(* the hash it computed is the one the table held for its row at entry,    *)
(* and then it has pushed nothing, the table is as at entry and            *)
(* lcd_line_busy is 0 as after the busy-wait; or the hash is another one,  *)
(* and then the table differs from the one at entry in that row's entry    *)
(* only, which is the computed hash, and it has pushed exactly one         *)
(* command, CORE_CMD_LCD_LINE for its row.  Only the two hashes decide.    *)
(***************************************************************************)
DirtyLineFilter ==
    pc0 = "ret" =>
        IF call.hashes[line] = sniff_data
        THEN /\ call.pushed = <<>>
             /\ lcd_line_hashes = call.hashes
             /\ lcd_line_busy = 0
        ELSE /\ lcd_line_hashes = [call.hashes EXCEPT ![line] = sniff_data]
             /\ call.pushed = <<Cmd(CORE_CMD_LCD_LINE, line)>>

(* A row last rendered as LineA is rendered as LineB, which has the same   *)
(* hash: nothing is pushed.                                                *)
DirtyLineFilterWitness ==
    /\ pc0 = "ret"
    /\ last[line] = LineA
    /\ pixels = LineB
    /\ call.pushed = <<>>

(***************************************************************************)
(* C6 as stated.  The table's entry of the row last written to the         *)
(* display is the hash of the bytes that were written.  Violated: the      *)
(* entry is stored before the command is pushed, so it is ahead of the     *)
(* display until the transfer has ended.                                   *)
(***************************************************************************)
HashOfTransmitted ==
    \A r \in Rows :
        tx.row = r =>
            /\ tx.bytes \in Lines
            /\ lcd_line_hashes[r] = SniffOf(tx.bytes)

(***************************************************************************)
(* C6, amended.  In every state and for every row r, lcd_line_hashes[r]    *)
(* is the hash of the last line lcd_draw_line decided to forward for row   *)
(* r, and 0 while it has forwarded none.                                   *)
(***************************************************************************)
HashOfForwarded ==
    \A r \in Rows :
        lcd_line_hashes[r] =
            IF fwd[r] = NoLine THEN Zero32 ELSE SniffOf(fwd[r])

(* The hash of a new line is stored for a row whose last transfer was of   *)
(* another line, and the command is not pushed yet.                        *)
HashOfForwardedWitness ==
    /\ pc0 = "push"
    /\ fwd[line] = pixels
    /\ tx.row = line
    /\ tx.bytes \in Lines
    /\ SniffOf(tx.bytes) # SniffOf(pixels)

(***************************************************************************)
(* C7.  First frame: every call of lcd_draw_line in the first frame        *)
(* pushes a CORE_CMD_LCD_LINE command for its row, whatever the bytes of   *)
(* the line.  Violated: the table starts as zeros, and the sniffer, seeded *)
(* with 0, computes 0 for a line of zero bytes.                            *)
(***************************************************************************)
FirstFrameForwardsAll ==
    (pc0 = "ret" /\ frame = 1) =>
        call.pushed = <<Cmd(CORE_CMD_LCD_LINE, line)>>

(***************************************************************************)
(* C8.  Idempotence: a call of lcd_draw_line with the line its row was     *)
(* last rendered with computes the hash the table holds for the row,       *)
(* pushes nothing and leaves the table as it was.                          *)
(***************************************************************************)
RenderIdempotent ==
    (pc0 = "ret" /\ call.repeat) =>
        /\ sniff_data = call.hashes[line]
        /\ call.pushed = <<>>
        /\ lcd_line_hashes = call.hashes

(* The second of two calls with the same line, the first of which did      *)
(* push a command.                                                         *)
RenderIdempotentWitness ==
    /\ pc0 = "ret"
    /\ call.repeat
    /\ fwd[line] = pixels
    /\ frame = 2

(***************************************************************************)
(* C9 as stated.  A first frame with the same bytes in every row pushes    *)
(* exactly one CORE_CMD_LCD_LINE command, for row 0; a second, identical   *)
(* frame pushes none.  Violated: the table has an entry per row, so every  *)
(* row of the first frame is compared with its own initial entry.          *)
(***************************************************************************)
SingleColourFrame ==
    /\ (pc0 = "frame" /\ frame = 1 /\ Uniform) => frame_cmds = <<0>>
    /\ (pc0 = "frame" /\ frame = 2 /\ Uniform /\ diff = {}) =>
            frame_cmds = <<>>

(***************************************************************************)
(* C9, amended.  A first frame with the same bytes in every row pushes     *)
(* one CORE_CMD_LCD_LINE command per row, for rows 0 .. LCD_HEIGHT - 1 in  *)
(* this order, when the hash of the bytes is not 0, and none when it is    *)
(* 0; a second, identical frame pushes none.                               *)
(***************************************************************************)
SingleColourFramePerRow ==
    /\ (pc0 = "frame" /\ frame = 1 /\ Uniform) =>
            frame_cmds = IF SniffOf(last[0]) = Zero32 THEN <<>> ELSE AllRows
    /\ (pc0 = "frame" /\ frame = 2 /\ Uniform /\ diff = {}) =>
            frame_cmds = <<>>

(* The end of the second of two identical frames of LineA. *)
SingleColourFramePerRowWitness ==
    /\ pc0 = "frame"
    /\ frame = 2
    /\ Uniform
    /\ diff = {}
    /\ last[0] = LineA
    /\ \A r \in Rows : fwd[r] = LineA

(***************************************************************************)
(* C10.  Single-row change: when a frame after the first differs from the  *)
(* frame before it in the bytes of exactly one row r, and in that row's    *)
(* hash, the commands pushed while it is rendered are exactly one          *)
(* CORE_CMD_LCD_LINE for row r.                                            *)
(***************************************************************************)
SingleRowChange ==
    (pc0 = "frame" /\ frame >= 2) =>
        \A r \in Rows :
            (diff = {r} /\ hdiff = {r}) => frame_cmds = <<r>>

(* The end of a second frame in which the last row alone has changed. *)
SingleRowChangeWitness ==
    /\ pc0 = "frame"
    /\ frame = 2
    /\ diff = {LCD_HEIGHT - 1}
    /\ hdiff = {LCD_HEIGHT - 1}

(***************************************************************************)
(* C11.  CORE_CMD_IDLE_SET: the step of core 1 that executes it sets the   *)
(* display's colour mode to the command's data and changes nothing else:   *)
(* lcd_line_busy, lcd_line_hashes, pixels_buffer, the FIFO, fb and the     *)
(* target row are as before; it is executed at its place in the order of   *)
(* the pushes, so the CORE_CMD_LCD_LINE commands around it keep theirs.    *)
(* And core 0's push of it waits for room in the FIFO only, not for        *)
(* lcd_line_busy.                                                          *)
(***************************************************************************)
IdleSetOnlyColourMode ==
    /\ [][(pc1 = "switch" /\ cmd.cmd = CORE_CMD_IDLE_SET /\ pc1' # pc1) =>
            /\ pc1' = "pop"
            /\ colour_mode' = cmd.data
            /\ UNCHANGED <<lcd_line_busy, lcd_line_hashes, pixels_buffer,
                           sniff_data, fifo, fb, lcd_x, dma_lcd_busy, core0>>
            /\ pending # <<>>
            /\ Head(pending) = cmd
            /\ pending' = Tail(pending)
            /\ in_order']_vars
    /\ []((pc0 = "idle" /\ Len(fifo) < FifoDepth) => ENABLED main_idle_push)

(* Core 1 has just executed a CORE_CMD_IDLE_SET that was pushed after one  *)
(* CORE_CMD_LCD_LINE and before another: the display has received a line,  *)
(* the colour mode is the new one, the later command waits in the FIFO and *)
(* lcd_line_busy is 1.                                                     *)
IdleSetOnlyColourModeWitness ==
    /\ pc1 = "pop"
    /\ cmd = Cmd(CORE_CMD_IDLE_SET, 1)
    /\ colour_mode = 1
    /\ lcd_line_busy = 1
    /\ DrawLines(fifo) = 1
    /\ tx # NoTx

SoundOfFrames(n) ==
    [i \in 1 .. 2 * n |->
        IF i % 2 = 1 THEN "audio_callback" ELSE "i2s_dma_write"]

(***************************************************************************)
(* C13.  Audio per frame: the calls main has made to the audio functions   *)
(* are, for every frame whose emulation has ended, one audio_callback      *)
(* followed by one i2s_dma_write, frame after frame.  While frame N is     *)
(* emulated (from its first __gb_step_cpu to the return of its last        *)
(* lcd_draw_line) the calls made are exactly those of frames 1 .. N - 1,   *)
(* so no step of frame N runs before i2s_dma_write has returned for frame  *)
(* N - 1; between the two calls of frame N only its audio_callback has     *)
(* been added.                                                             *)
(***************************************************************************)
AudioOncePerFrame ==
    /\ pc0 \in {"step", "wait", "copy", "busy", "push", "ret", "audio"} =>
            sound = SoundOfFrames(frame - 1)
    /\ pc0 = "i2s" =>
            sound = Append(SoundOfFrames(frame - 1), "audio_callback")
    /\ pc0 \in {"frame", "idle"} => sound = SoundOfFrames(frame)

(* The second frame is being emulated, a CORE_CMD_LCD_LINE of it is        *)
(* pushed, and the calls made are the two of the first frame.              *)
AudioOncePerFrameWitness ==
    /\ frame = 2
    /\ pc0 = "ret"
    /\ frame_cmds # <<>>
    /\ sound = <<"audio_callback", "i2s_dma_write">>

(***************************************************************************)
(* C14.  lcd_line_busy goes from 1 to 0 only in the step that completes    *)
(* the transfer of a CORE_CMD_LCD_LINE command core 1 is executing, and    *)
(* never while a CORE_CMD_LCD_LINE waits in the FIFO.  Violated: the       *)
(* handler core1_irq_dma_lcd_end_transfer also runs at the end of the      *)
(* start-up screen clear, when core 0 may already have set the flag and    *)
(* pushed the first scanline's command.                                    *)
(***************************************************************************)
BusyClearedByOwnTransfer ==
    [][(lcd_line_busy = 1 /\ lcd_line_busy' = 0) =>
            /\ pc1 \in {"write", "draw_wfi"}
            /\ cmd.cmd = CORE_CMD_LCD_LINE
            /\ DrawLines(fifo) = 0]_vars

(***************************************************************************)
(* C15 as stated.  When core 1 leaves the point where it hands fb to the   *)
(* display, it is back in the command loop: with USE_DMA 1 the transfer    *)
(* has been started and is not waited for, with USE_DMA 0 the transfer is  *)
(* done and lcd_line_busy is 0.  Violated for USE_DMA 1: after             *)
(* dma_channel_transfer_from_buffer_now the function stays in              *)
(* do { __wfi(); } while (dma_channel_is_busy(dma_lcd)).                   *)
(***************************************************************************)
TransferReturnsAtOnce ==
    [][(pc1 = "write" /\ pc1' # pc1) =>
            /\ pc1' = "pop"
            /\ (use_dma = 1 => dma_lcd_busy')
            /\ (use_dma = 0 => lcd_line_busy' = 0)]_vars

(***************************************************************************)
(* C15, amended.  USE_DMA 1: the handling of CORE_CMD_LCD_LINE starts the  *)
(* transfer and stays in core1_lcd_draw_line until the channel is no       *)
(* longer busy; while a scanline transfer is in flight core 1 is in that   *)
(* wait loop and pops nothing; the completion interrupt stores 0 to        *)
(* lcd_line_busy before the function returns to the command loop.          *)
(* USE_DMA 0: the transfer is made inline, lcd_line_busy is stored 0 right *)
(* after it, and core 1 is back at the pop.                                *)
(***************************************************************************)
TransferThenReturn ==
    /\ [][/\ (pc1 = "write" /\ pc1' # pc1) =>
               IF use_dma = 1
               THEN /\ pc1' = "draw_wfi"
                    /\ dma_lcd_busy'
                    /\ UNCHANGED <<lcd_line_busy, fifo, tx>>
               ELSE /\ pc1' = "pop"
                    /\ lcd_line_busy' = 0
                    /\ tx' = [row |-> cmd.data, bytes |-> raw]
                    /\ UNCHANGED <<fifo, dma_lcd_busy>>
          /\ (pc1 = "draw_wfi" /\ dma_lcd_busy /\ ~dma_lcd_busy') =>
               /\ lcd_line_busy' = 0
               /\ tx' = [row |-> cmd.data, bytes |-> raw]
               /\ UNCHANGED <<pc1, fifo>>
          /\ (pc1 = "draw_wfi" /\ pc1' # pc1) =>
               /\ ~dma_lcd_busy
               /\ pc1' = "pop"
               /\ UNCHANGED <<lcd_line_busy, fifo, dma_lcd_busy>>]_vars
    /\ [](dma_lcd_busy => pc1 \in {"clear_wfi", "draw_wfi"})
    /\ [](pc1 = "draw_wfi" => (use_dma = 1 /\ cmd.cmd = CORE_CMD_LCD_LINE))

(* USE_DMA 1: the transfer of a scanline is in flight, core 1 is in the    *)
(* wait loop, and a command waits in the FIFO.                             *)
TransferThenReturnWitness ==
    /\ use_dma = 1
    /\ pc1 = "draw_wfi"
    /\ dma_lcd_busy
    /\ fifo # <<>>

(***************************************************************************)
(* C16.  Start-up ordering: while core 1 is in its initialisation or waits *)
(* for the end of the full-screen clear it has popped nothing, so every    *)
(* command pushed so far is in the FIFO, in the order of the pushes, and   *)
(* nothing has been written to the display's window.  Every pop, the first *)
(* one included, is made from the command loop with no transfer of dma_lcd *)
(* in flight, and takes the oldest command pushed and not yet executed.    *)
(***************************************************************************)
StartupOrdering ==
    /\ [](pc1 \in {"init", "clear_wfi"} =>
            /\ fifo = pending
            /\ cmd = Cmd(CORE_CMD_NOP, 0)
            /\ lcd_x = 0
            /\ tx = NoTx)
    /\ [][(pc1' = "switch" /\ pc1 # "switch") =>
            /\ pc1 = "pop"
            /\ ~dma_lcd_busy
            /\ cmd' = Head(pending)
            /\ in_order]_vars

(* The first pop: the CORE_CMD_IDLE_SET pushed after a first frame that    *)
(* forwarded no line is taken, the CORE_CMD_LCD_LINE pushed after it waits *)
(* in the FIFO; nothing has been drawn and the colour mode is the initial  *)
(* one.                                                                    *)
StartupOrderingWitness ==
    /\ pc1 = "switch"
    /\ cmd = Cmd(CORE_CMD_IDLE_SET, 1)
    /\ fifo = <<Cmd(CORE_CMD_LCD_LINE, 0)>>
    /\ lcd_x = 0
    /\ colour_mode = 0
    /\ tx = NoTx

(***************************************************************************)
(* C17.  When core 1 is about to hand fb to the display for a              *)
(* CORE_CMD_LCD_LINE command, the bytes it has translated are the line of  *)
(* the lcd_draw_line call that pushed the command, fb is the palette       *)
(* translation of that line, and the target row is the command's row plus  *)
(* 16.  Violated: after the start-up interrupt has cleared lcd_line_busy   *)
(* (C14), core 0 copies a later scanline into pixels_buffer before core 1  *)
(* has read it for the command of the earlier one.                         *)
(***************************************************************************)
DrawLineRendersEnqueued ==
    pc1 = "write" =>
        /\ lcd_x = cmd.data + 16
        /\ raw = cmd_px
        /\ fb = Translate(cmd_px)

(* Core 0 cannot step: it spins on lcd_line_busy at the top of             *)
(* lcd_draw_line, or in multicore_fifo_push_blocking on a full FIFO.       *)
Core0Blocked ==
    \/ pc0 = "wait" /\ lcd_line_busy # 0
    \/ pc0 \in {"push", "idle"} /\ ~fifo_has_room

(* Core 1 cannot step: it is in multicore_fifo_pop_blocking on an empty    *)
(* FIFO.                                                                   *)
Core1Blocked == pc1 = "pop" /\ fifo = <<>>

(***************************************************************************)
(* C18.  Deadlock freedom: in no state is core 0 blocked (on lcd_line_busy *)
(* or on a full FIFO) while core 1 is blocked on an empty FIFO; and        *)
(* whenever lcd_line_busy is 1 and core 0 is past the push that follows    *)
(* the store of 1, a CORE_CMD_LCD_LINE command is in the FIFO or being     *)
(* executed by core 1, so the flag will be cleared.  The only states in    *)
(* which neither core can step are those where core 0 has reached the      *)
(* serial input after the last frame followed and core 1 waits for a       *)
(* command.                                                                *)
(***************************************************************************)
NoDeadlock ==
    /\ ~(Core0Blocked /\ Core1Blocked)
    /\ (lcd_line_busy = 1 /\ pc0 # "push") => DrawLines(Outstanding) >= 1
    /\ (~ENABLED Next) => (pc0 = "frame" /\ frame = MaxFrames /\ Core1Blocked)

(* Core 0 spins on lcd_line_busy at the start of a frame while the FIFO is *)
(* full, the command that will clear the flag first in it.                 *)
NoDeadlockWitness ==
    /\ pc0 = "wait"
    /\ lcd_line_busy = 1
    /\ pc1 = "pop"
    /\ ~fifo_has_room
    /\ fifo[1].cmd = CORE_CMD_LCD_LINE

(***************************************************************************)
(* C19.  Single-writer discipline.  A step of core 1 (its initialisation,  *)
(* the handling of any command, the interrupt handler) leaves              *)
(* lcd_line_hashes, pixels_buffer and sniff_data as they were and does not *)
(* take lcd_line_busy from 0 to 1.  lcd_line_hashes changes only in the    *)
(* step of lcd_draw_line that follows its copy, and only in the entry of   *)
(* the row being drawn; pixels_buffer changes only in that step too.  A    *)
(* step of core 0 does not take lcd_line_busy from 1 to 0, and the flag    *)
(* goes from 0 to 1 only in lcd_draw_line before its push.                 *)
(***************************************************************************)
SingleWriter ==
    [][/\ (core1' # core1) =>
            /\ UNCHANGED <<lcd_line_hashes, pixels_buffer, sniff_data>>
            /\ ~(lcd_line_busy = 0 /\ lcd_line_busy' = 1)
       /\ (core0' # core0) => ~(lcd_line_busy = 1 /\ lcd_line_busy' = 0)
       /\ (lcd_line_hashes' # lcd_line_hashes) =>
            /\ pc0 = "copy"
            /\ pc0' = "busy"
            /\ \A r \in Rows \ {line} :
                    lcd_line_hashes'[r] = lcd_line_hashes[r]
       /\ (pixels_buffer' # pixels_buffer) => pc0 = "copy"
       /\ (lcd_line_busy = 0 /\ lcd_line_busy' = 1) =>
            (pc0 = "busy" /\ pc0' = "push")]_vars

(* USE_DMA 1: core 1 has initialised, executed a CORE_CMD_IDLE_SET and     *)
(* transferred the last row, the interrupt has cleared lcd_line_busy, and  *)
(* the table holds the hashes core 0 stored.                               *)
SingleWriterWitness ==
    /\ use_dma = 1
    /\ pc1 = "pop"
    /\ tx.row = LCD_HEIGHT - 1
    /\ colour_mode = 1
    /\ lcd_line_busy = 0
    /\ \A r \in Rows : lcd_line_hashes[r] # Zero32
    /\ pixels_buffer # [x \in Cols |-> 0]

====
